---- MODULE Spec2Model ----
(***************************************************************************)
(* State-machine model of src/execute.py: the pipeline                     *)
(*   description -> architecture request -> approval loop ->               *)
(*   scaffold traversal (create_folder_or_file) -> per-file request ->     *)
(*   save_file_to_output.                                                  *)
(* Strings that the code inspects (names, user input) are sequences of     *)
(* one-character strings; file contents are opaque strings.                *)
(***************************************************************************)
EXTENDS Naturals, Sequences, FiniteSets, TLC

VARIABLES
    archReply,          \* what the service answers to the architecture request
    fs,                 \* the filesystem: [dirs, files]
    rerun,              \* TRUE once main() has run to completion on this output root
    pc,                 \* position of main()
    architecture_data,  \* the module global of the same name
    approved,           \* what get_user_approval returned: "True", "False"; "unset" before
    typed,              \* the line last read by input() at the approval prompt
    user_input,         \* the local of get_user_approval after strip().lower()
    prompts,            \* rejected inputs so far in the approval loop
    i,                  \* index of the outer loop over file_scaffolding.items()
    j,                  \* index of the inner loop over files.items()
    file_list,          \* the local list of (folder, filename) pairs
    idx,                \* pairs of file_list already processed
    requests,           \* per-file service requests issued by the last step
    writes,             \* open(..., "w") attempts made by the last step
    mkdirs,             \* os.makedirs attempts made by the last step
    frames,             \* deepest nesting of create_folder_or_file and
                        \* save_file_to_output calls in the last step
    error               \* "none", or the exception that ended the run

vars == <<archReply, fs, rerun, pc, architecture_data, approved, typed, user_input,
          prompts, i, j, file_list, idx, requests, writes, mkdirs, frames, error>>

----------------------------------------------------------------------------
(* Bounds of the model *)

MaxLen == 3        \* longest flat-list scaffold
MaxFiles == 2      \* most file names in a mapping scaffold
MaxPrompts == 2    \* most rejected inputs in a row at the approval prompt
RecursionLimit == 6  \* nested calls the interpreter allows before RecursionError

----------------------------------------------------------------------------
(* Strings *)

OUTPUT_PATH == <<"O", "u", "t", "p", "u", "t">>

EmptyName == <<>>
MainPy == <<"a", ".", "p">>
MainPySlash == <<"a", ".", "p", "/">>
UtilsPy == <<"b", ".", "p">>
UtilsPySlash == <<"b", ".", "p", "/">>
Config == <<"c">>
Src == <<"s">>
Docs == <<"d">>
DotDir == <<"v", ".", "1">>

\* a dot rule that takes every name for a file name
HasDot_Always(item) == TRUE

\* "." in item
HasDot(item) == \E k \in 1..Len(item) : item[k] = "."

\* a loop that keeps the names as they are written
rstrip_Keep(f) == f

\* str.rstrip("/")
RECURSIVE rstrip(_)
rstrip(f) ==
    IF Len(f) > 0 /\ f[Len(f)] = "/" THEN rstrip(SubSeq(f, 1, Len(f) - 1)) ELSE f

\* str.lower() on the characters the inputs use
LowerChar(c) ==
    CASE c = "Y" -> "y"
      [] c = "E" -> "e"
      [] c = "S" -> "s"
      [] c = "N" -> "n"
      [] c = "O" -> "o"
      [] OTHER -> c

\* a comparison that forgets .lower()
lower_CaseSensitive(s) == s

lower(s) == [k \in 1..Len(s) |-> LowerChar(s[k])]

RECURSIVE lstrip(_)
lstrip(s) == IF Len(s) > 0 /\ s[1] = " " THEN lstrip(Tail(s)) ELSE s

RECURSIVE rstripSpace(_)
rstripSpace(s) ==
    IF Len(s) > 0 /\ s[Len(s)] = " " THEN rstripSpace(SubSeq(s, 1, Len(s) - 1)) ELSE s

\* str.strip()
strip(s) == rstripSpace(lstrip(s))

Yes == <<"y", "e", "s">>
Y == <<"y">>
No == <<"n", "o">>
N == <<"n">>

\* what the user may type at the approval prompt
Inputs ==
    { <<"y">>, <<"Y", "E", "S">>, <<" ", "Y", "e", "s", " ">>,
      <<"n">>, <<"N", "O">>, <<"N", " ">>,
      <<>>, <<" ">>, <<"y", "e", "s", "!">> }

----------------------------------------------------------------------------
(* File contents and service replies *)

None == "<None>"
Texts == {"", "t1", "t2"}
Replies == Texts \cup {None}

\* Python truthiness of a reply: None and "" are falsy
Truthy(c) == c /= None /\ c /= ""

----------------------------------------------------------------------------
(* The filesystem.  A path is a sequence of names; <<>> is the working     *)
(* directory.  fs.dirs is the set of directories, fs.files maps the path   *)
(* of every regular file to its content.                                   *)

\* os.path.join(path, item) for a path and one name; the result of joining
\* "" ("Output/") names the same entry as the path itself
join(path, item) == IF item = EmptyName THEN path ELSE Append(path, item)

IsDir(f, p) == p = <<>> \/ p \in f.dirs
IsFile(f, p) == p \in DOMAIN f.files

\* os.path.exists
Exists(f, p) == IsDir(f, p) \/ IsFile(f, p)

Parent(p) == SubSeq(p, 1, Len(p) - 1)
Prefixes(p) == {SubSeq(p, 1, k) : k \in 1..Len(p)}

\* os.makedirs(full_item): creates the directory and its missing ancestors,
\* or raises OSError (an ancestor is a regular file, or the system refuses)
makedirs(full_item, st) ==
    LET raised == [st EXCEPT !.error = "OSError",
                             !.mkdirs = Append(@, [path |-> full_item, ok |-> FALSE])]
        made == [st EXCEPT !.fs.dirs = @ \cup Prefixes(full_item),
                           !.mkdirs = Append(@, [path |-> full_item, ok |-> TRUE])]
    IN  IF \E q \in Prefixes(full_item) : IsFile(st.fs, q)
        THEN {raised}
        ELSE {made, raised}

\* with open(file_path, "w") as f: f.write(content), inside try/except:
\* the file is created or truncated and holds content, or the exception is
\* caught and printed (parent missing, path is a directory, or the system
\* refuses)
open_write(file_path, content, st) ==
    LET ev(ok, fault) == [path |-> file_path, content |-> content, ok |-> ok,
                          existed |-> IsFile(st.fs, file_path),
                          old |-> IF IsFile(st.fs, file_path)
                                  THEN st.fs.files[file_path] ELSE None,
                          parent |-> IsDir(st.fs, Parent(file_path)),
                          fault |-> fault]
        saved == [st EXCEPT !.fs.files = (file_path :> content) @@ @,
                            !.writes = Append(@, ev(TRUE, FALSE))]
        failed(fault) == [st EXCEPT !.writes = Append(@, ev(FALSE, fault))]
    IN  IF IsDir(st.fs, Parent(file_path)) /\ ~IsDir(st.fs, file_path)
        THEN {saved, failed(TRUE)}
        ELSE {failed(FALSE)}

\* ask_chatgpt_for_file_content: one request; returns the text of the reply,
\* or None when the gateway raised.  Result: pairs <<content, state>>.
ask_chatgpt_for_file_content(folder, filename, st) ==
    { <<r, [st EXCEPT !.requests =
                Append(@, [folder |-> folder, filename |-> filename, reply |-> r])]>>
      : r \in Replies }

\* a call of create_folder_or_file or save_file_to_output is entered: one
\* more frame on the stack
Enter(st) ==
    [st EXCEPT !.depth = @ + 1,
               !.frames = IF st.depth + 1 > @ THEN st.depth + 1 ELSE @]

\* the call is left, by return or by exception, in one of the states S
Leave(S) == {[s EXCEPT !.depth = @ - 1] : s \in S}

\* the interpreter refuses a frame beyond its limit
TooDeep(st) == st.depth > RecursionLimit

RecursionError(st) == [st EXCEPT !.error = "RecursionError"]

RECURSIVE create_folder_or_file(_, _, _)
RECURSIVE save_file_to_output(_, _, _, _)

\* create_folder_or_file without the test of os.path.exists
create_folder_or_file_NoCheck(path, item, st) ==
    LET full_item == join(<<path>>, item)
        st1 == Enter(st)
    IN  IF TooDeep(st1) THEN Leave({RecursionError(st1)})
        ELSE Leave(
          IF HasDot(item)
          THEN UNION { IF Truthy(r[1])
                       THEN save_file_to_output(path, item, r[1], r[2])
                       ELSE {r[2]}
                       : r \in ask_chatgpt_for_file_content(path, item, st1) }
          ELSE makedirs(full_item, st1))

\* create_folder_or_file(path, item): the set of states it can end in;
\* a state with error /= "none" is an exception leaving the call
create_folder_or_file(path, item, st) ==
    LET full_item == join(<<path>>, item)
        st1 == Enter(st)
    IN  IF TooDeep(st1) THEN Leave({RecursionError(st1)})
        ELSE Leave(
          IF Exists(st1.fs, full_item) THEN {st1}
          ELSE IF HasDot(item)
          THEN UNION { IF Truthy(r[1])
                       THEN save_file_to_output(path, item, r[1], r[2])
                       ELSE {r[2]}
                       : r \in ask_chatgpt_for_file_content(path, item, st1) }
          ELSE makedirs(full_item, st1))

\* save_file_to_output(folder, filename, content)
save_file_to_output(folder, filename, content, st) ==
    LET output_folder == join(<<OUTPUT_PATH>>, folder)
        file_path == join(output_folder, filename)
        st1 == Enter(st)
    IN  IF TooDeep(st1) THEN Leave({RecursionError(st1)})
        ELSE Leave(
          UNION { IF s.error /= "none" THEN {s}
                  ELSE open_write(file_path, content, s)
                  : s \in create_folder_or_file(OUTPUT_PATH, folder, st1) })

----------------------------------------------------------------------------
(* JSON values the architecture reply can carry *)

Str(n) == [t |-> "str", s |-> n]
\* a list element that is not a string (a number, an object, null)
NonString == [t |-> "num", s |-> EmptyName]

SeqsUpTo(S, n) == UNION {[1..k -> S] : k \in 0..n}

\* elements of a flat-list scaffold
ListElems == {Str(MainPy), Str(MainPySlash), Str(Config), NonString}
\* elements of the file list under a folder key
DictElems == {Str(MainPy), Str(UtilsPySlash), NonString}
FolderKeys == {Src, Docs, DotDir}
InnerKeys == {Docs}

\* values of a folder key: a list, a nested mapping (its keys), anything else
ListValue(elems) == [t |-> "list", elems |-> elems, keys |-> <<>>]
DictValue(keys) == [t |-> "dict", elems |-> <<>>, keys |-> keys]
OtherValue == [t |-> "other", elems |-> <<>>, keys |-> <<>>]

Values(n) ==
    {ListValue(e) : e \in SeqsUpTo(DictElems, n)}
    \cup {DictValue(<<k>>) : k \in InnerKeys}
    \cup {OtherValue}

Item(k, v) == [k |-> k, v |-> v]

\* file_scaffolding: a mapping (its items in insertion order, keys distinct),
\* a list, or any other JSON value
ListScaffold(elems) == [t |-> "list", elems |-> elems, items |-> <<>>]
DictScaffold(items) == [t |-> "dict", elems |-> <<>>, items |-> items]
OtherScaffold == [t |-> "other", elems |-> <<>>, items |-> <<>>]

DictScaffolds ==
    {DictScaffold(<<>>)}
    \cup {DictScaffold(<<Item(k, v)>>) : k \in FolderKeys, v \in Values(MaxFiles)}
    \cup {DictScaffold(<<Item(k1, v1), Item(k2, v2)>>) :
            <<k1, k2, v1, v2>> \in
              {q \in FolderKeys \X FolderKeys \X Values(MaxFiles) \X Values(MaxFiles) :
                 /\ q[1] /= q[2]
                 /\ Len(q[3].elems) + Len(q[4].elems) <= MaxFiles}}

Scaffolds ==
    {ListScaffold(e) : e \in SeqsUpTo(ListElems, MaxLen)}
    \cup DictScaffolds \cup {OtherScaffold}

\* parsed JSON: a non-empty object (with or without the file_scaffolding
\* key), a falsy value ({}, [], 0, "", null), or a truthy non-object
DictData(has, sc) == [t |-> "dict", has |-> has, scaffold |-> sc]
FalsyData == [t |-> "falsy", has |-> FALSE, scaffold |-> OtherScaffold]
NonDictData == [t |-> "nondict", has |-> FALSE, scaffold |-> OtherScaffold]
NoData == [t |-> "None", has |-> FALSE, scaffold |-> OtherScaffold]

\* outcomes of the architecture request: the gateway raises, the text is
\* not JSON, or json.loads returns a value
ArchReplies ==
    {[kind |-> "RequestError", data |-> NoData], [kind |-> "NotJSON", data |-> NoData]}
    \cup {[kind |-> "JSON", data |-> d] :
            d \in {FalsyData, NonDictData, DictData(FALSE, OtherScaffold)}
                  \cup {DictData(TRUE, sc) : sc \in Scaffolds}}

\* ask_chatgpt_for_architecture: the parsed data, or None on any exception
ask_chatgpt_for_architecture(reply) ==
    IF reply.kind = "JSON" THEN reply.data ELSE NoData

\* a test "architecture_data == {}" that lets None through
NotData_NoneIsData(data) == data.t = "falsy"

\* "not architecture_data"
NotData(data) == data.t \in {"None", "falsy"}

\* architecture_data.get("file_scaffolding", {})
get_file_scaffolding(data) ==
    IF data.has THEN data.scaffold ELSE DictScaffold(<<>>)

\* user_input in ["yes", "y"] / in ["no", "n"]
IsAffirmative(u) == u \in {Yes, Y}
IsNegative(u) == u \in {No, N}

----------------------------------------------------------------------------
(* Initial state *)

EmptyFS == [dirs |-> {}, files |-> <<>>]
\* the output root exists and holds a regular file named like a folder
FileAtSrcFS == [dirs |-> {<<OUTPUT_PATH>>}, files |-> (<<OUTPUT_PATH, Src>> :> "t1")]
InitFS == {EmptyFS, FileAtSrcFS}

Init ==
    /\ archReply \in ArchReplies
    /\ fs \in InitFS
    /\ rerun = FALSE
    /\ pc = "start"
    /\ architecture_data = NoData
    /\ approved = "unset"
    /\ typed = EmptyName
    /\ user_input = EmptyName
    /\ prompts = 0
    /\ i = 0
    /\ j = 0
    /\ file_list = <<>>
    /\ idx = 0
    /\ requests = <<>>
    /\ writes = <<>>
    /\ mkdirs = <<>>
    /\ frames = 0
    /\ error = "none"

----------------------------------------------------------------------------
(* Steps of main() *)

\* the state a step hands to the functions it calls
St0 == [fs |-> fs, requests |-> <<>>, writes |-> <<>>, mkdirs |-> <<>>,
        depth |-> 0, frames |-> 0, error |-> "none"]

\* the step ends in s: its filesystem, what it did, and the exception if any
Effects(s) ==
    /\ fs' = s.fs
    /\ requests' = s.requests
    /\ writes' = s.writes
    /\ mkdirs' = s.mkdirs
    /\ frames' = s.frames
    /\ error' = s.error

NoEffects ==
    /\ requests' = <<>>
    /\ writes' = <<>>
    /\ mkdirs' = <<>>
    /\ frames' = 0
    /\ UNCHANGED <<fs, error>>

\* an uncaught exception ends the run with a traceback
Raise(e) ==
    /\ requests' = <<>>
    /\ writes' = <<>>
    /\ mkdirs' = <<>>
    /\ frames' = 0
    /\ fs' = fs
    /\ error' = e
    /\ pc' = "crashed"

Pair(folder, filename) == [folder |-> folder, filename |-> filename]

AllStrings(elems) == \A k \in 1..Len(elems) : elems[k].t = "str"

\* a loop that applies the dot-in-name rule and records only dotted names
AppendFiles_DotRule(list, folder, elems) ==
    list \o [k \in 1..Cardinality({m \in 1..Len(elems) : HasDot(elems[m].s)}) |->
               Pair(folder, rstrip(elems[CHOOSE m \in 1..Len(elems) :
                   /\ HasDot(elems[m].s)
                   /\ Cardinality({q \in 1..m : HasDot(elems[q].s)}) = k].s))]

\* for f in files: f = f.rstrip("/"); file_list.append((folder, f))
AppendFiles(list, folder, elems) ==
    list \o [k \in 1..Len(elems) |-> Pair(folder, rstrip(elems[k].s))]

\* main, lines 265-272: read the description, ask for the architecture,
\* leave when there is none
AskArchitecture ==
    /\ pc = "start"
    /\ architecture_data' = ask_chatgpt_for_architecture(archReply)
    /\ pc' = IF NotData(architecture_data') THEN "exit_noarch" ELSE "display"
    /\ NoEffects
    /\ UNCHANGED <<archReply, rerun, approved, typed, user_input, prompts, i, j,
                   file_list, idx>>

\* display_architecture_proposal: architecture_data.get raises
\* AttributeError when the parsed value is no object
DisplayArchitectureProposal ==
    /\ pc = "display"
    /\ IF architecture_data.t = "dict"
       THEN pc' = "approval" /\ NoEffects
       ELSE Raise("AttributeError")
    /\ UNCHANGED <<archReply, rerun, architecture_data, approved, typed, user_input,
                   prompts, i, j, file_list, idx>>

\* get_user_approval: one iteration of the while True loop
GetUserApproval ==
    /\ pc = "approval"
    /\ \E inp \in Inputs :
         /\ typed' = inp
         /\ user_input' = lower(strip(inp))
         /\ IF IsAffirmative(user_input')
            THEN approved' = "True" /\ pc' = "decided" /\ UNCHANGED prompts
            ELSE IF IsNegative(user_input')
            THEN approved' = "False" /\ pc' = "decided" /\ UNCHANGED prompts
            ELSE /\ prompts < MaxPrompts
                 /\ prompts' = prompts + 1
                 /\ UNCHANGED <<approved, pc>>
    /\ NoEffects
    /\ UNCHANGED <<archReply, rerun, architecture_data, i, j, file_list, idx>>

\* main without the return on disapproval
MainApproval_Proceeds ==
    /\ pc = "decided"
    /\ pc' = "generate"
    /\ typed' = EmptyName
    /\ user_input' = EmptyName
    /\ prompts' = 0
    /\ NoEffects
    /\ UNCHANGED <<archReply, rerun, architecture_data, approved, i, j,
                   file_list, idx>>

\* main, lines 278-282: leave on disapproval, else go on to generation
MainApproval ==
    /\ pc = "decided"
    /\ pc' = IF approved = "True" THEN "generate" ELSE "exit_disapproved"
    /\ typed' = EmptyName
    /\ user_input' = EmptyName
    /\ prompts' = 0
    /\ NoEffects
    /\ UNCHANGED <<archReply, rerun, architecture_data, approved, i, j,
                   file_list, idx>>

\* where the traversal goes after item i of the mapping
AfterItem(sc) ==
    IF i < Len(sc.items)
    THEN pc' = "walk_dict" /\ i' = i + 1 /\ j' = 0
    ELSE pc' = "gen" /\ i' = 0 /\ j' = 0

\* generate_software_files, lines 138-144 and 157: create the output root,
\* read the scaffold, pick the branch
GenerateStart ==
    /\ pc = "generate"
    /\ \E s \in create_folder_or_file(OUTPUT_PATH, EmptyName, St0) :
         /\ Effects(s)
         /\ LET sc == get_file_scaffolding(architecture_data)
            IN  IF s.error /= "none"
                THEN pc' = "crashed" /\ UNCHANGED <<i, j>>
                ELSE IF sc.t = "dict" /\ Len(sc.items) > 0
                THEN pc' = "walk_dict" /\ i' = 1 /\ j' = 0
                ELSE IF sc.t = "list"
                THEN pc' = "walk_list" /\ UNCHANGED <<i, j>>
                ELSE pc' = "gen" /\ UNCHANGED <<i, j>>
    /\ file_list' = <<>>
    /\ idx' = 0
    /\ UNCHANGED <<archReply, rerun, architecture_data, approved, typed, user_input,
                   prompts>>

\* lines 145-152: one iteration of the loop over file_scaffolding.items()
WalkKey ==
    /\ pc = "walk_dict"
    /\ j = 0
    /\ LET sc == get_file_scaffolding(architecture_data)
           folder == sc.items[i].k
           files == sc.items[i].v
       IN  \E s \in create_folder_or_file(OUTPUT_PATH, folder, St0) :
             IF s.error /= "none"
             THEN Effects(s) /\ pc' = "crashed" /\ UNCHANGED <<i, j, file_list>>
             ELSE IF files.t = "list"
             THEN IF AllStrings(files.elems)
                  THEN /\ Effects(s)
                       /\ file_list' = AppendFiles(file_list, folder, files.elems)
                       /\ AfterItem(sc)
                  ELSE /\ Effects([s EXCEPT !.error = "AttributeError"])
                       /\ pc' = "crashed"
                       /\ UNCHANGED <<i, j, file_list>>
             ELSE IF files.t = "dict" /\ Len(files.keys) > 0
             THEN /\ Effects(s)
                  /\ j' = 1
                  /\ UNCHANGED <<pc, i, file_list>>
             ELSE /\ Effects(s)
                  /\ AfterItem(sc)
                  /\ UNCHANGED file_list
    /\ UNCHANGED <<archReply, rerun, architecture_data, approved, typed, user_input,
                   prompts, idx>>

\* lines 153-154: one iteration of the loop over files.items()
WalkInner ==
    /\ pc = "walk_dict"
    /\ j > 0
    /\ LET sc == get_file_scaffolding(architecture_data)
           files == sc.items[i].v
           folder == files.keys[j]
       IN  \E s \in create_folder_or_file(OUTPUT_PATH, folder, St0) :
             /\ Effects(s)
             /\ IF s.error /= "none"
                THEN pc' = "crashed" /\ UNCHANGED <<i, j>>
                ELSE IF j < Len(files.keys)
                THEN j' = j + 1 /\ UNCHANGED <<pc, i>>
                ELSE AfterItem(sc)
    /\ UNCHANGED <<archReply, rerun, architecture_data, approved, typed, user_input,
                   prompts, file_list, idx>>

\* lines 157-161: the loop over a list scaffold
WalkList ==
    /\ pc = "walk_list"
    /\ LET sc == get_file_scaffolding(architecture_data)
       IN  IF AllStrings(sc.elems)
           THEN /\ file_list' = AppendFiles(<<>>, EmptyName, sc.elems)
                /\ pc' = "gen"
                /\ NoEffects
           ELSE Raise("AttributeError") /\ UNCHANGED file_list
    /\ UNCHANGED <<archReply, rerun, architecture_data, approved, typed, user_input,
                   prompts, i, j, idx>>

\* lines 164-170: one iteration of the loop over file_list
GenFile ==
    /\ pc = "gen"
    /\ idx < Len(file_list)
    /\ LET folder == file_list[idx + 1].folder
           filename == file_list[idx + 1].filename
       IN  \E r \in ask_chatgpt_for_file_content(folder, filename, St0) :
             \E s \in (IF Truthy(r[1])
                       THEN save_file_to_output(folder, filename, r[1], r[2])
                       ELSE {r[2]}) :
               /\ Effects(s)
               /\ pc' = IF s.error /= "none" THEN "crashed" ELSE "gen"
    /\ idx' = idx + 1
    /\ UNCHANGED <<archReply, rerun, architecture_data, approved, typed, user_input,
                   prompts, i, j, file_list>>

\* main, line 287: generate_software_files returned
MainDone ==
    /\ pc = "gen"
    /\ idx = Len(file_list)
    /\ pc' = "done"
    /\ NoEffects
    /\ UNCHANGED <<archReply, rerun, architecture_data, approved, typed, user_input,
                   prompts, i, j, file_list, idx>>

\* the program is started again on the same output root and receives the
\* same proposal
Rerun ==
    /\ pc = "done"
    /\ rerun' = TRUE
    /\ pc' = "start"
    /\ architecture_data' = NoData
    /\ approved' = "unset"
    /\ typed' = EmptyName
    /\ user_input' = EmptyName
    /\ prompts' = 0
    /\ i' = 0
    /\ j' = 0
    /\ file_list' = <<>>
    /\ idx' = 0
    /\ NoEffects
    /\ UNCHANGED archReply

Next ==
    \/ AskArchitecture
    \/ DisplayArchitectureProposal
    \/ GetUserApproval
    \/ MainApproval
    \/ GenerateStart
    \/ WalkKey
    \/ WalkInner
    \/ WalkList
    \/ GenFile
    \/ MainDone
    \/ Rerun

Spec == Init /\ [][Next]_vars

\* the steps of one run of main()
RunStep ==
    \/ AskArchitecture
    \/ DisplayArchitectureProposal
    \/ GetUserApproval
    \/ MainApproval
    \/ GenerateStart
    \/ WalkKey
    \/ WalkInner
    \/ WalkList
    \/ GenFile
    \/ MainDone

\* a run that can take a step takes one: the interpreter goes on, every
\* gateway call returns, and the user answers the prompt (after MaxPrompts
\* rejected lines, with an accepted one)
LiveSpec == Init /\ [][Next]_vars /\ WF_vars(RunStep)

----------------------------------------------------------------------------
(* Properties *)

NoStepEffects == requests = <<>> /\ writes = <<>> /\ mkdirs = <<>>

\* C1: no directory creation, file write or per-file request happens in a
\* run before the approval loop has returned True; after a negative
\* decision the run goes to its clean exit, with nothing written or
\* requested and no exception.
C1_NoEffectsUnlessApproved ==
    /\ approved /= "True" => NoStepEffects
    /\ approved = "False" => pc \in {"decided", "exit_disapproved"} /\ error = "none"
    /\ pc = "exit_disapproved" => approved = "False"

C1_Witness == pc = "exit_disapproved" /\ approved = "False" /\ NoStepEffects

\* C3: when the architecture request fails (the gateway raises, or the text
\* is not JSON) the run goes from its start straight to the "no
\* architecture" exit: the approval prompt is never shown, nothing is
\* requested per file and the filesystem stays as it was.
C3_ArchitectureFailureIsFatal ==
    archReply.kind \in {"RequestError", "NotJSON"} =>
        /\ pc \in {"start", "exit_noarch"}
        /\ approved = "unset"
        /\ prompts = 0
        /\ NoStepEffects
        /\ fs \in InitFS
        /\ error = "none"

C3_Witness == archReply.kind = "NotJSON" /\ pc = "exit_noarch"

\* the lines that match yes/y, and no/n, without regard to case (and to
\* surrounding blanks)
AffirmativeLines == { <<"y">>, <<"Y", "E", "S">>, <<" ", "Y", "e", "s", " ">> }
NegativeLines == { <<"n">>, <<"N", "O">>, <<"N", " ">> }

\* C7: the approval loop has returned only after a line matching yes/y
\* (with True) or no/n (with False), case-insensitively; after any other
\* line it is still prompting, has returned nothing, and the pipeline has
\* not advanced, however many such lines came before.
C7_ApprovalLoop ==
    /\ pc = "decided" =>
         \/ typed \in AffirmativeLines /\ approved = "True"
         \/ typed \in NegativeLines /\ approved = "False"
    /\ pc = "approval" => approved = "unset" /\ NoStepEffects
    /\ pc = "approval" /\ prompts > 0 =>
         typed \notin AffirmativeLines \cup NegativeLines
    /\ prompts > 0 => pc \in {"approval", "decided"}

C7_Witness ==
    /\ pc = "decided"
    /\ prompts >= 2
    /\ typed = <<"Y", "E", "S">>
    /\ approved = "True"

\* the scaffold the run works on
Scaffold == get_file_scaffolding(architecture_data)

\* <output root>/<folder>/<filename>
FilePath(p) ==
    IF p.folder = EmptyName
    THEN <<OUTPUT_PATH, p.filename>>
    ELSE <<OUTPUT_PATH, p.folder, p.filename>>

\* the step just taken was the generation step of pair idx of file_list
AfterGenStep == pc \in {"gen", "crashed"} /\ idx >= 1

\* C2: the generation step of every pair of the sequence requests that
\* pair's content; when the request fails the run goes on to the next
\* pair, and when it returns text (any text) the file is written with it,
\* unless the filesystem refuses.
C2_PartialFailure ==
    AfterGenStep =>
        /\ requests /= <<>>
        /\ requests[1].folder = file_list[idx].folder
        /\ requests[1].filename = file_list[idx].filename
        /\ requests[1].reply = None => pc = "gen" /\ error = "none"
        /\ requests[1].reply \in Texts =>
             \/ error = "OSError"
             \/ \E k \in 1..Len(writes) :
                  /\ writes[k].path = FilePath(file_list[idx])
                  /\ writes[k].content = requests[1].reply
                  /\ writes[k].ok \/ writes[k].fault

\* paths the current run can have written before the generation step of
\* pair n: the earlier pairs, and the files made for dotted folder keys
EarlierTargets(n) ==
    {FilePath(file_list[k]) : k \in 1..(n - 1)}
    \cup {<<OUTPUT_PATH, OUTPUT_PATH, k>> : k \in FolderKeys \cup InnerKeys}

\* C4: in a second run with the same approved proposal no exception ends
\* the run unless the filesystem refuses a directory, and a write to a file
\* that was there when the run began leaves its content as it was.
C4_Idempotent ==
    rerun =>
        /\ pc = "crashed" => \E k \in 1..Len(mkdirs) : ~mkdirs[k].ok
        /\ \A k \in 1..Len(writes) :
             (writes[k].ok /\ writes[k].existed
                /\ writes[k].path \notin EarlierTargets(idx))
             => writes[k].content = writes[k].old

\* the value maps folder names to lists of file names
IsFolderToFiles(sc) ==
    /\ sc.t = "dict"
    /\ \A k \in 1..Len(sc.items) :
         sc.items[k].v.t = "list" /\ AllStrings(sc.items[k].v.elems)

\* file names as written in the scaffold, without trailing separators
NameOf(n) ==
    CASE n = MainPySlash -> MainPy
      [] n = UtilsPySlash -> UtilsPy
      [] OTHER -> n

RECURSIVE PairsOf(_)
PairsOf(items) ==
    IF items = <<>> THEN <<>>
    ELSE [k \in 1..Len(items[1].v.elems) |->
            Pair(items[1].k, NameOf(items[1].v.elems[k].s))]
         \o PairsOf(Tail(items))

\* the traversal is over and no pair has been processed yet
TraversalDone == pc = "gen" /\ idx = 0

\* C5: for a mapping from folder names to lists of file names, after the
\* traversal <output root>/<key> is there for every key (a path that was
\* already there counts), and the generation sequence is the (key, file)
\* pairs, folders in insertion order and files in list order.
C5_FolderToFiles ==
    (TraversalDone /\ IsFolderToFiles(Scaffold)) =>
        /\ \A k \in 1..Len(Scaffold.items) :
             Exists(fs, <<OUTPUT_PATH, Scaffold.items[k].k>>)
        /\ file_list = PairsOf(Scaffold.items)

IsFlatList(sc) == sc.t = "list" /\ AllStrings(sc.elems)

InFileList(p) == \E k \in 1..Len(file_list) : file_list[k] = p

\* C6 as stated: in a flat list an element with '.' is a File of the root,
\* and an element without '.' is a Folder: a directory is made for it and
\* it is not in the generation sequence.
C6_DotRuleOnFlatList ==
    (TraversalDone /\ IsFlatList(Scaffold)) =>
        \A k \in 1..Len(Scaffold.elems) :
            LET n == NameOf(Scaffold.elems[k].s)
            IN  IF HasDot(n)
                THEN InFileList(Pair(EmptyName, n))
                ELSE /\ ~InFileList(Pair(EmptyName, n))
                     /\ IsDir(fs, <<OUTPUT_PATH, n>>)

\* C6 as amended: in a flat list of names every element, with or without
\* '.', is a File of the root: the generation sequence is ("", name) for
\* each element in list order, the run makes no directory but the output
\* root, and the content of each element is requested in its turn.
C6_FlatListAllFiles ==
    (architecture_data.t = "dict" /\ IsFlatList(Scaffold)) =>
        /\ pc \in {"gen", "done"} =>
             /\ Len(file_list) = Len(Scaffold.elems)
             /\ \A k \in 1..Len(file_list) :
                  file_list[k] = Pair(EmptyName, NameOf(Scaffold.elems[k].s))
        /\ \A k \in 1..Len(mkdirs) : mkdirs[k].path = <<OUTPUT_PATH>>
        /\ AfterGenStep =>
             /\ requests /= <<>>
             /\ requests[1].folder = EmptyName
             /\ requests[1].filename = NameOf(Scaffold.elems[idx].s)

C6_Witness ==
    /\ IsFlatList(Scaffold)
    /\ AfterGenStep
    /\ file_list[idx] = Pair(EmptyName, Config)
    /\ IsFile(fs, <<OUTPUT_PATH, Config>>)
    /\ ~IsDir(fs, <<OUTPUT_PATH, Config>>)
    /\ \E k \in 1..Len(writes) : writes[k].ok /\ writes[k].path = <<OUTPUT_PATH, Config>>

\* C8: a step in which os.makedirs or the file write failed does not end
\* the run: no exception leaves it.
C8_FilesystemFailureRecovered ==
    (\/ \E k \in 1..Len(mkdirs) : ~mkdirs[k].ok
     \/ \E k \in 1..Len(writes) : ~writes[k].ok)
    => pc /= "crashed" /\ error = "none"

\* C9: no write goes to a path that holds a file at the moment of the
\* write.
C9_CreateOnly ==
    \A k \in 1..Len(writes) : writes[k].ok => ~writes[k].existed

\* C10: no (folder, filename) pair is twice in the generation sequence.
C10_PairsUnique ==
    \A a, b \in 1..Len(file_list) : a /= b => file_list[a] /= file_list[b]

\* C11: after the generation step of a pair whose request returned text,
\* whatever the text, and in which the filesystem refused nothing, the file
\* <output root>/<folder>/<filename> holds exactly that text.
C11_WrittenAsIs ==
    (/\ AfterGenStep
     /\ requests /= <<>>
     /\ requests[1].reply \in Texts
     /\ error = "none"
     /\ \A k \in 1..Len(writes) : ~writes[k].fault)
    => /\ IsFile(fs, FilePath(file_list[idx]))
       /\ fs.files[FilePath(file_list[idx])] = requests[1].reply

\* C12: no run ends with an uncaught exception, whatever the architecture
\* reply parses to and whatever the scaffold holds: a run that is over is
\* at one of its three exits (a refusal of the filesystem is C8's case).
C12_ThreeExits ==
    /\ error \in {"none", "OSError"}
    /\ pc = "crashed" => error = "OSError"

\* the step just taken belongs to the traversal (the creation of the output
\* root included): no pair has been processed yet
InTraversal == pc \in {"walk_dict", "walk_list", "gen", "crashed"} /\ idx = 0

\* C13: no content request is issued by a step of the traversal, and the
\* generation step of a pair issues exactly one request, the one for that
\* pair.
C13_GenerationDeferred ==
    /\ InTraversal => requests = <<>>
    /\ AfterGenStep =>
         /\ Len(requests) = 1
         /\ requests[1].folder = file_list[idx].folder
         /\ requests[1].filename = file_list[idx].filename

\* C14: at every attempt to write a file, the directory the file goes into
\* is there.
C14_FolderBeforeFile ==
    \A k \in 1..Len(writes) : writes[k].parent

\* C15: for a mapping scaffold, whatever the names of its keys, after the
\* traversal <output root>/<key> is there for every key (a path that was
\* already there counts), and no step of the traversal has requested
\* content or written a file.
C15_KeysAreFolders ==
    /\ (TraversalDone /\ Scaffold.t = "dict") =>
         \A k \in 1..Len(Scaffold.items) :
             Exists(fs, <<OUTPUT_PATH, Scaffold.items[k].k>>)
    /\ (InTraversal /\ Scaffold.t = "dict") => requests = <<>> /\ writes = <<>>

\* C16: when the value of a folder key is a mapping, after the traversal
\* <output root>/<outer key>/<inner key> is there for each of its keys.
C16_NestedFolders ==
    TraversalDone =>
        \A k \in 1..Len(Scaffold.items) :
            \A m \in 1..Len(Scaffold.items[k].v.keys) :
                Exists(fs, <<OUTPUT_PATH, Scaffold.items[k].k,
                             Scaffold.items[k].v.keys[m]>>)

\* C17: once the traversal of a flat list of names is over, the generation
\* sequence is exactly ("", name) for each element in list order, the name
\* being the element without its trailing separators, and the traversal has
\* made no directory: the only directory there is the output root.
C17_FlatListTraversal ==
    (TraversalDone /\ IsFlatList(Scaffold)) =>
        /\ file_list = [k \in 1..Len(Scaffold.elems) |->
                          Pair(EmptyName, NameOf(Scaffold.elems[k].s))]
        /\ mkdirs = <<>>
        /\ fs.dirs = {<<OUTPUT_PATH>>}

C17_Witness ==
    /\ TraversalDone
    /\ IsFlatList(Scaffold)
    /\ Len(Scaffold.elems) = 3
    /\ Scaffold.elems[1].s = Config
    /\ Scaffold.elems[2].s = MainPySlash
    /\ file_list[2] = Pair(EmptyName, MainPy)

\* the step called create_folder_or_file(OUTPUT_PATH, item) and nothing else
\* that touches the filesystem or the service
CallsCreate(item) ==
    \/ GenerateStart /\ item = EmptyName
    \/ WalkKey /\ item = Scaffold.items[i].k
    \/ WalkInner /\ item = Scaffold.items[i].v.keys[j]

\* the step changed nothing on the filesystem, requested nothing, and no
\* exception came out of create_folder_or_file
NothingDone ==
    /\ fs' = fs
    /\ requests' = <<>>
    /\ writes' = <<>>
    /\ mkdirs' = <<>>
    /\ error' /= "OSError"

\* C18: a step that calls create_folder_or_file on a path that is already
\* there, as a file or as a directory, leaves the filesystem as it was,
\* issues no request, and no error comes out of the call.
C18_ExistingTargetSkipped ==
    [][\A item \in {EmptyName} \cup FolderKeys \cup InnerKeys :
         (CallsCreate(item) /\ Exists(fs, join(<<OUTPUT_PATH>>, item)))
         => NothingDone]_vars

\* in a second run the traversal has met a key that is there as a regular
\* file and then a key that is there as a directory
C18_Witness ==
    /\ rerun
    /\ TraversalDone
    /\ Scaffold.t = "dict"
    /\ Len(Scaffold.items) = 2
    /\ Scaffold.items[1].k = Src
    /\ Scaffold.items[2].k = Docs
    /\ IsFile(fs, <<OUTPUT_PATH, Src>>)
    /\ IsDir(fs, <<OUTPUT_PATH, Docs>>)
    /\ NoStepEffects

\* the run is over: one of the three exits, or a traceback
Terminated == pc \in {"done", "exit_noarch", "exit_disapproved", "crashed"}

\* C19: every run that starts comes to its end, and no step nests the calls
\* of create_folder_or_file and save_file_to_output more than four deep
\* (save -> create -> save -> create, for a dotted folder name), so the
\* interpreter's recursion limit is never met.
C19_Terminates ==
    /\ [](frames <= 4 /\ error /= "RecursionError")
    /\ (pc = "start") ~> Terminated

\* the generation step of a pair under a dotted folder name went four calls
\* deep and came back; the run then reached its end
C19_Witness ==
    /\ pc = "done"
    /\ frames = 0
    /\ Len(file_list) >= 1
    /\ HasDot(file_list[Len(file_list)].folder)
    /\ HasDot(file_list[Len(file_list)].filename)
    /\ IsFile(fs, <<OUTPUT_PATH, OUTPUT_PATH, file_list[Len(file_list)].folder>>)

====
